---- MODULE Spec2Model ----
(***************************************************************************)
(* Inventory-Management: the product table and the user table behind the   *)
(* two request layers of the repository (app.py, and routes/api_routes.py   *)
(* over services/), as a state machine.                                     *)
(*                                                                          *)
(* Every request handler has the same shape: it reads rows through the ORM, *)
(* runs its checks, then commits through BaseModel.save.  Requests of        *)
(* different clients run in separate sessions, so the read step and the     *)
(* commit step of two requests interleave.  A handler that answers before   *)
(* it commits is one step; a handler that commits is a read step followed   *)
(* by a commit step.                                                        *)
(***************************************************************************)
EXTENDS Integers, Sequences, FiniteSets, TLC

VARIABLES
    products,   \* table `products`: a sequence of rows, row i has id i
    inflight,   \* per client: the request between its read step and its commit
    last,       \* per client: the response to its latest request, with that request
    users,      \* table `users`: a sequence of rows, row i has id i
    now,        \* the servers' clock, in seconds
    profile     \* the environment name config.get_config is called with

vars == <<products, inflight, last, users, now, profile>>

-----------------------------------------------------------------------------
(* Bounds of the model *)

MaxQty == 2          \* quantities submitted range over -1 .. MaxQty
PriceA == 5          \* the positive price submitted (beside 0 and -1)
MaxIssueTime == 1    \* SpecToken: logins happen at times 0 .. MaxIssueTime
MaxTime == 3612      \* SpecToken: the clock runs to MaxTime, past every expiry

Clients == {1}       \* Spec: one client, its requests one after the other
Callers == {1, 2, 3} \* SpecRace: clients that each issue one request, concurrently
UserIds == {1}       \* identities carried by the access tokens of Spec and SpecRace

-----------------------------------------------------------------------------
(* Strings are sequences of characters, so that len() and strip() compute. *)

SKU1 == <<"S", "K", "1">>
SKU2 == <<"S", "K", "2">>
NameA == <<"a", "b">>
NameB == <<"c", "d", "e">>
NamePadded == <<"a", " ">>     \* two characters, one after strip()

RECURSIVE lstrip(_)
lstrip(s) == IF s = <<>> THEN s
             ELSE IF Head(s) = " " THEN lstrip(Tail(s)) ELSE s

RECURSIVE rstrip(_)
rstrip(s) == IF s = <<>> THEN s
             ELSE IF s[Len(s)] = " " THEN rstrip(SubSeq(s, 1, Len(s) - 1)) ELSE s

strip(s) == rstrip(lstrip(s))

-----------------------------------------------------------------------------
(* models.py: Product *)

\* Product.__init__ ; is_active takes its column default on insert
Product(data, created_by) ==
    [name |-> data.name, sku |-> data.sku, quantity |-> data.quantity,
     price |-> data.price, is_active |-> TRUE, created_by |-> created_by]

is_in_stock_nonneg(row) == row.quantity >= 0

is_in_stock(row) == row.quantity > 0

to_dict(row) ==
    [id |-> row.id, name |-> row.name, sku |-> row.sku,
     quantity |-> row.quantity, price |-> row.price,
     is_active |-> row.is_active, in_stock |-> is_in_stock(row),
     created_by |-> row.created_by]

\* Product.find_by_sku: filter_by(sku=sku, is_active=True).first()
find_by_sku(tbl, sku) ==
    LET hits == SelectSeq(tbl, LAMBDA r : r.sku = sku /\ r.is_active)
    IN  IF hits = <<>> THEN <<>> ELSE <<Head(hits)>>

query_get_active(tbl, id) ==
    IF id \in 1 .. Len(tbl) /\ tbl[id].is_active THEN <<tbl[id]>> ELSE <<>>

\* Product.query.get(id) / get_or_404(id): no filter on is_active
query_get(tbl, id) == IF id \in 1 .. Len(tbl) THEN <<tbl[id]>> ELSE <<>>

sku_unique_unchecked(tbl, row) == FALSE

\* The UNIQUE constraint on products.sku (models.py:131)
sku_unique_violated(tbl, row) == \E i \in 1 .. Len(tbl) : tbl[i].sku = row.sku

\* BaseModel.save of a new row: INSERT, id is the next rowid
insert_row(tbl, row) ==
    Append(tbl, [id |-> Len(tbl) + 1, name |-> row.name, sku |-> row.sku,
                 quantity |-> row.quantity, price |-> row.price,
                 is_active |-> row.is_active, created_by |-> row.created_by])

Columns == {"name", "price", "quantity", "is_active"}

net_changes_whole_row(row, assigned) ==
    [c \in Columns |-> IF c \in DOMAIN assigned THEN assigned[c] ELSE row[c]]

\* The session's unit of work: only attributes whose value differs from the
\* value loaded are written by the UPDATE that commit() emits.
net_changes(row, assigned) ==
    [c \in {d \in DOMAIN assigned : assigned[d] # row[d]} |-> assigned[c]]

update_row_skip_price(tbl, id, changes) ==
    [tbl EXCEPT ![id] =
        [f \in DOMAIN tbl[id] |->
            IF f \in DOMAIN changes \ {"price"} THEN changes[f] ELSE tbl[id][f]]]

\* BaseModel.save of a loaded row: UPDATE products SET <changed columns> WHERE id
update_row(tbl, id, changes) ==
    [tbl EXCEPT ![id] =
        [f \in DOMAIN tbl[id] |->
            IF f \in DOMAIN changes THEN changes[f] ELSE tbl[id][f]]]

-----------------------------------------------------------------------------
(* services/product_service.py: ProductService.validate_product_data *)

RequiredFields == {"name", "sku", "quantity", "price"}

validate_product_data(data) ==
    LET missing == {f \in RequiredFields : f \notin DOMAIN data}
        badName == "name" \in DOMAIN data
                     /\ (data.name = <<>> \/ Len(strip(data.name)) < 2)
        badSku  == "sku" \in DOMAIN data
                     /\ (data.sku = <<>> \/ Len(strip(data.sku)) < 3)
        badQty  == "quantity" \in DOMAIN data /\ data.quantity < 0
        badPrice == "price" \in DOMAIN data /\ data.price < 0
    IN  (IF missing # {} THEN {"required"} ELSE {})
          \cup (IF badName THEN {"name"} ELSE {})
          \cup (IF badSku THEN {"sku"} ELSE {})
          \cup (IF badQty THEN {"quantity"} ELSE {})
          \cup (IF badPrice THEN {"price"} ELSE {})

-----------------------------------------------------------------------------
(* Responses *)

Idle == [pc |-> "idle"]
NoBody == <<>>

\* wrote: the columns set by the UPDATE the commit emitted ({} without a commit)
\* dirty: the attributes assigned on the session's object and not committed when
\*        the handler returned; the session is removed with the request
Response(req, status, kind, body, wrote) ==
    [req |-> req, status |-> status, kind |-> kind, body |-> body, wrote |-> wrote,
     dirty |-> {}]

NoResponse == Response([op |-> "none"], 0, "none", NoBody, {})

\* the handler returns without committing
Respond(p, req, status, kind, body) ==
    /\ last' = [last EXCEPT ![p] = Response(req, status, kind, body, {})]
    /\ UNCHANGED <<products, inflight, users, now, profile>>

\* the handler returns without committing what it assigned
RespondDiscarding(p, req, status, kind, dirty) ==
    /\ last' = [last EXCEPT ![p] =
          [Response(req, status, kind, NoBody, {}) EXCEPT !.dirty = dirty]]
    /\ UNCHANGED <<products, inflight, users, now, profile>>

\* the handler has read and checked, its commit is still to come
Pend(p, pending) ==
    /\ inflight' = [inflight EXCEPT ![p] = pending]
    /\ last' = [last EXCEPT ![p] = NoResponse]
    /\ UNCHANGED <<products, users, now, profile>>

\* routes/api_routes.py add_product: 409 if "already exists" in message else 400
api_create_status(kind) == IF kind = "DuplicateSku" THEN 409 ELSE 400

\* routes/api_routes.py update_product_quantity: 404 if "not found" in message else 400
api_quantity_status(kind) == IF kind = "NotFound" THEN 404 ELSE 400

\* str(user.id) and int(identity): decimal digits
Digits == <<"0", "1", "2", "3", "4", "5", "6", "7", "8", "9">>

RECURSIVE str(_)
str(n) == IF n < 10 THEN <<Digits[n + 1]>>
          ELSE str(n \div 10) \o <<Digits[(n % 10) + 1]>>

DigitValue(c) == CHOOSE v \in 0 .. 9 : Digits[v + 1] = c

RECURSIVE int(_)
int(s) == IF Len(s) = 1 THEN DigitValue(s[1])
          ELSE 10 * int(SubSeq(s, 1, Len(s) - 1)) + DigitValue(s[Len(s)])

-----------------------------------------------------------------------------
(* config.py and app.py: the JWT settings; flask_jwt_extended: access tokens *)

JWT_DECODE_LEEWAY == 10

\* config.py Config: JWT_ACCESS_TOKEN_EXPIRES = False, a token carries no expiry (<<>>)
Config ==
    [JWT_DECODE_LEEWAY |-> JWT_DECODE_LEEWAY, JWT_ACCESS_TOKEN_EXPIRES |-> <<>>]

DevelopmentConfig == Config

ProductionConfig == [Config EXCEPT !.JWT_ACCESS_TOKEN_EXPIRES = <<3600>>]

TestingConfig == Config

config_mapping ==
    [development |-> DevelopmentConfig, production |-> ProductionConfig,
     testing |-> TestingConfig, default |-> DevelopmentConfig]

get_config(environment) ==
    IF environment \in DOMAIN config_mapping THEN config_mapping[environment]
    ELSE DevelopmentConfig

\* app.py sets the leeway and no JWT_ACCESS_TOKEN_EXPIRES: the extension's default
\* of 15 minutes applies
AppConfig ==
    [JWT_DECODE_LEEWAY |-> JWT_DECODE_LEEWAY, JWT_ACCESS_TOKEN_EXPIRES |-> <<15 * 60>>]

\* the settings of the application that serves endpoint layer ep: app.py carries its
\* own, the blueprint of routes/api_routes.py is configured through config.py
app_config(ep) == IF ep = "app" THEN AppConfig ELSE get_config(profile)

\* each application signs with its own JWT_SECRET_KEY
JWT_SECRET_KEY(ep) == ep

\* the signed claims: subject, issued-at, expiry (absent when expiry is disabled)
encode_token(identity, iat, cfg, key) ==
    [sub |-> identity, iat |-> iat,
     exp |-> IF cfg.JWT_ACCESS_TOKEN_EXPIRES = <<>> THEN <<>>
             ELSE <<iat + cfg.JWT_ACCESS_TOKEN_EXPIRES[1]>>,
     key |-> key]

\* flask_jwt_extended.create_access_token(identity=...) in the application of ep
create_access_token(identity, ep) ==
    encode_token(identity, now, app_config(ep), JWT_SECRET_KEY(ep))

NoToken == <<>>        \* a request without an Authorization header

decode_token_no_leeway(tok, ep) ==
    IF tok = NoToken THEN {"MissingToken"}
    ELSE IF tok.key # JWT_SECRET_KEY(ep) THEN {"InvalidToken"}
    ELSE IF tok.exp # <<>> /\ tok.exp[1] <= now THEN {"ExpiredToken"}
    ELSE {"ok"}

decode_token_unsigned(tok, ep) ==
    IF tok = NoToken THEN {"MissingToken"}
    ELSE IF tok.exp # <<>> /\ tok.exp[1] < now - app_config(ep).JWT_DECODE_LEEWAY
      THEN {"ExpiredToken"}
    ELSE {"ok"}

\* @jwt_required(): the outcomes of verifying the request's token.  The token is
\* expired once exp lies before now - leeway; in the second where exp = now - leeway
\* the outcome depends on the release of the JWT library installed.
decode_token(tok, ep) ==
    IF tok = NoToken THEN {"MissingToken"}
    ELSE IF tok.key # JWT_SECRET_KEY(ep) THEN {"InvalidToken"}
    ELSE IF tok.exp = <<>> THEN {"ok"}
    ELSE LET limit == now - app_config(ep).JWT_DECODE_LEEWAY
         IN  IF tok.exp[1] < limit THEN {"ExpiredToken"}
             ELSE IF tok.exp[1] = limit THEN {"ExpiredToken", "ok"}
             ELSE {"ok"}

get_jwt_identity(tok) == tok.sub

\* app.py answers every token failure with 401; the loaders of the application that
\* hosts the blueprint are its own: 401, or the extension's 422 for an invalid token
jwt_error_statuses(ep, outcome) ==
    IF ep = "api" /\ outcome = "InvalidToken" THEN {401, 422} ELSE {401}

\* the decorator answers, the handler's body does not run
Reject(p, req, outcome) ==
    \E status \in jwt_error_statuses(req.ep, outcome) :
        Respond(p, req, status, outcome, NoBody)

-----------------------------------------------------------------------------
(* POST /products *)

\* app.py add_product, up to new_product.save()
AppAddProduct(p, data, tok) ==
    LET req == [op |-> "create", ep |-> "app", data |-> data, token |-> tok]
    IN  /\ inflight[p] = Idle
        /\ \E auth \in decode_token(tok, "app") :
             IF auth # "ok"
               THEN Reject(p, req, auth)
             ELSE IF ~(RequiredFields \subseteq DOMAIN data)
               THEN Respond(p, req, 400, "MissingFields", NoBody)
             ELSE IF find_by_sku(products, data.sku) # <<>>
               THEN Respond(p, req, 409, "DuplicateSku", NoBody)
             ELSE Pend(p, [pc |-> "insert", req |-> req,
                           row |-> Product(data, int(get_jwt_identity(tok)))])

\* api_routes.py add_product over ProductService.create_product, up to product.save()
ApiAddProduct(p, data, tok) ==
    LET req == [op |-> "create", ep |-> "api", data |-> data, token |-> tok]
    IN  /\ inflight[p] = Idle
        /\ \E auth \in decode_token(tok, "api") :
             IF auth # "ok"
               THEN Reject(p, req, auth)
             ELSE IF validate_product_data(data) # {}
               THEN Respond(p, req, api_create_status("ValidationError"),
                            "ValidationError", NoBody)
             ELSE IF find_by_sku(products, data.sku) # <<>>
               THEN Respond(p, req, api_create_status("DuplicateSku"),
                            "DuplicateSku", NoBody)
             ELSE Pend(p, [pc |-> "insert", req |-> req,
                           row |-> Product(data, int(get_jwt_identity(tok)))])

\* BaseModel.save() of the new product and the handler's answer
CommitInsert(p) ==
    LET t == inflight[p]
    IN  /\ t.pc = "insert"
        /\ inflight' = [inflight EXCEPT ![p] = Idle]
        /\ UNCHANGED <<users, now, profile>>
        /\ IF sku_unique_violated(products, t.row)
             THEN /\ UNCHANGED products
                  /\ last' = [last EXCEPT ![p] =
                        IF t.req.ep = "app"
                          THEN Response(t.req, 500, "InternalError", NoBody, {})
                          ELSE Response(t.req, api_create_status("CreationFailed"),
                                        "CreationFailed", NoBody, {})]
             ELSE /\ products' = insert_row(products, t.row)
                  /\ last' = [last EXCEPT ![p] =
                        Response(t.req, 201, "Created",
                                 <<[product_id |-> Len(products) + 1]>>, {})]

-----------------------------------------------------------------------------
(* PUT /products/<id>/quantity, PUT /products/<id>, DELETE /products/<id> *)

update_quantity_never_raises(q) == FALSE

\* Product.update_quantity raises ValueError on a negative quantity
update_quantity_raises(q) == q < 0

\* app.py update_product_quantity, up to the save() inside update_quantity
AppUpdateQuantity(p, id, data, tok) ==
    LET req == [op |-> "quantity", ep |-> "app", id |-> id, data |-> data,
                token |-> tok]
        got == query_get(products, id)
    IN  /\ inflight[p] = Idle
        /\ \E auth \in decode_token(tok, "app") :
             IF auth # "ok"
               THEN Reject(p, req, auth)
             ELSE IF got = <<>>
               THEN Respond(p, req, 404, "NotFound", NoBody)
             ELSE IF "quantity" \notin DOMAIN data
               THEN Respond(p, req, 400, "InvalidQuantity", NoBody)
             ELSE IF update_quantity_raises(data.quantity)
               THEN Respond(p, req, 400, "NegativeQuantity", NoBody)
             ELSE Pend(p, [pc |-> "update", req |-> req, id |-> id,
                           changes |-> net_changes(got[1],
                                                   [quantity |-> data.quantity])])

\* ProductService.update_product_quantity: the service's own checks
service_quantity_check(got, q) ==
    IF got = <<>> THEN "NotFound"
    ELSE IF ~got[1].is_active THEN "Inactive"
    ELSE IF q < 0 THEN "NegativeQuantity"
    ELSE "ok"

\* api_routes.py update_product_quantity over ProductService.update_product_quantity
ApiUpdateQuantity(p, id, data, tok) ==
    LET req == [op |-> "quantity", ep |-> "api", id |-> id, data |-> data,
                token |-> tok]
        got == query_get(products, id)
    IN  /\ inflight[p] = Idle
        /\ \E auth \in decode_token(tok, "api") :
             IF auth # "ok"
               THEN Reject(p, req, auth)
             ELSE IF "quantity" \notin DOMAIN data
               THEN Respond(p, req, 400, "InvalidQuantity", NoBody)
             ELSE LET chk == service_quantity_check(got, data.quantity)
                  IN  IF chk # "ok"
                        THEN Respond(p, req, api_quantity_status(chk), chk, NoBody)
                      ELSE Pend(p, [pc |-> "update", req |-> req, id |-> id,
                                    changes |-> net_changes(got[1],
                                                  [quantity |-> data.quantity])])

UpdatableFieldsAndActive == {"name", "price", "quantity", "is_active"}

UpdatableFieldsAndSku == {"name", "price", "quantity", "sku"}

\* the keys of the payload update_product looks at
UpdatableFields == {"name", "price", "quantity"}

\* the keys update_product assigns before it calls update_quantity
AssignedFirst == UpdatableFields \ {"quantity"}

\* app.py update_product: attributes are assigned in the session, update_quantity
\* raises before anything is committed, otherwise everything assigned is committed
AppUpdateProduct(p, id, data, tok) ==
    LET req == [op |-> "update", ep |-> "app", id |-> id, data |-> data,
                token |-> tok]
        got == query_get(products, id)
        assigned == [f \in DOMAIN data \cap UpdatableFields |-> data[f]]
    IN  /\ inflight[p] = Idle
        /\ \E auth \in decode_token(tok, "app") :
             IF auth # "ok"
               THEN Reject(p, req, auth)
             ELSE IF got = <<>>
               THEN Respond(p, req, 404, "NotFound", NoBody)
             ELSE IF DOMAIN data = {}
               THEN Respond(p, req, 400, "NoData", NoBody)
             ELSE IF "quantity" \in DOMAIN data /\ update_quantity_raises(data.quantity)
               THEN RespondDiscarding(p, req, 400, "NegativeQuantity",
                                      DOMAIN data \cap AssignedFirst)
             ELSE Pend(p, [pc |-> "update", req |-> req, id |-> id,
                           changes |-> net_changes(got[1], assigned)])

\* app.py delete_product, up to product.save()
AppDeleteProduct(p, id, tok) ==
    LET req == [op |-> "delete", ep |-> "app", id |-> id, token |-> tok]
        got == query_get(products, id)
    IN  /\ inflight[p] = Idle
        /\ \E auth \in decode_token(tok, "app") :
             IF auth # "ok"
               THEN Reject(p, req, auth)
             ELSE IF got = <<>>
               THEN Respond(p, req, 404, "NotFound", NoBody)
             ELSE Pend(p, [pc |-> "update", req |-> req, id |-> id,
                           changes |-> net_changes(got[1], [is_active |-> FALSE])])

\* BaseModel.save() of a loaded product and the handler's answer; the answer
\* serializes the row as it is after the commit (the session expires on commit)
CommitUpdate(p) ==
    LET t == inflight[p]
        tbl == update_row(products, t.id, t.changes)
    IN  /\ t.pc = "update"
        /\ inflight' = [inflight EXCEPT ![p] = Idle]
        /\ UNCHANGED <<users, now, profile>>
        /\ products' = tbl
        /\ last' = [last EXCEPT ![p] =
              Response(t.req, 200, "Ok",
                       IF t.req.op = "delete" THEN NoBody ELSE <<to_dict(tbl[t.id])>>,
                       DOMAIN t.changes)]

-----------------------------------------------------------------------------
(* models.py: User, and werkzeug's salted password hash *)

UserA == <<"a", "n", "n">>
UserB == <<"b", "o", "b">>
PwA == <<"s", "e", "c", "r", "e", "t">>
PwB == <<"h", "u", "n", "t", "e", "r">>
PwShort == <<"p", "w">>
EmailA == <<"a", "@", "x">>
EmailB == <<"b", "@", "x">>
EmailBad == <<"b", "x">>
Salts == {"s1", "s2"}

\* generate_password_hash: a fresh salt, stored beside the digest of salt and password
generate_password_hash(password, salt) ==
    [salt |-> salt, digest |-> <<salt, password>>]

check_password_hash_other_salt(pwhash, password) ==
    pwhash.digest = <<"s0", password>>

\* check_password_hash: the digest of the stored salt and the password offered
check_password_hash(pwhash, password) ==
    pwhash.digest = <<pwhash.salt, password>>

\* User.__init__ ; email is None (<<>>) or one address (<<address>>)
User(username, password, email, salt) ==
    [username |-> username, password_hash |-> generate_password_hash(password, salt),
     email |-> email, is_active |-> TRUE]

user_to_dict(row) ==
    [id |-> row.id, username |-> row.username, email |-> row.email,
     is_active |-> row.is_active]

\* User.find_by_username: filter_by(username=username).first()
find_by_username(tbl, username) ==
    LET hits == SelectSeq(tbl, LAMBDA r : r.username = username)
    IN  IF hits = <<>> THEN <<>> ELSE <<Head(hits)>>

find_by_email_nobody(tbl, email) == <<>>

\* User.query.filter_by(email=email).first()
find_by_email(tbl, email) ==
    LET hits == SelectSeq(tbl, LAMBDA r : r.email = <<email>>)
    IN  IF hits = <<>> THEN <<>> ELSE <<Head(hits)>>

\* User.find_by_id
find_by_id(tbl, id) == IF id \in 1 .. Len(tbl) THEN <<tbl[id]>> ELSE <<>>

\* The UNIQUE constraints on users.username and users.email (NULLs never collide)
user_unique_violated(tbl, row, self) ==
    \E i \in 1 .. Len(tbl) :
        /\ i # self
        /\ \/ tbl[i].username = row.username
           \/ row.email # <<>> /\ tbl[i].email = row.email

insert_user(tbl, row) ==
    Append(tbl, [id |-> Len(tbl) + 1, username |-> row.username,
                 password_hash |-> row.password_hash, email |-> row.email,
                 is_active |-> row.is_active])

\* dict.get(key): None and the empty string are both falsy, <<>> stands for either
Get(data, f) == IF f \in DOMAIN data THEN data[f] ELSE <<>>

\* data.get('email') as the column value: None when absent
EmailOf(data) == IF "email" \in DOMAIN data THEN <<data.email>> ELSE <<>>

-----------------------------------------------------------------------------
(* services/auth_service.py: AuthService.validate_user_data *)

validate_user_data(data) ==
    (IF Get(data, "username") = <<>> THEN {"username required"}
     ELSE IF Len(data.username) < 3 THEN {"username short"} ELSE {})
      \cup (IF Get(data, "password") = <<>> THEN {"password required"}
            ELSE IF Len(data.password) < 6 THEN {"password short"} ELSE {})
      \cup (IF Get(data, "email") # <<>>
                 /\ ~(\E i \in 1 .. Len(data.email) : data.email[i] = "@")
              THEN {"email format"} ELSE {})

\* routes/api_routes.py register: 409 if "already exists" in message else 400
api_register_status(kind) == IF kind = "DuplicateUsername" THEN 409 ELSE 400

-----------------------------------------------------------------------------
(* POST /register, POST /login, PUT /profile *)

\* app.py register, up to new_user.save()
AppRegister(p, data, salt) ==
    LET req == [op |-> "register", ep |-> "app", data |-> data]
    IN  /\ inflight[p] = Idle
        /\ IF Get(data, "username") = <<>> \/ Get(data, "password") = <<>>
             THEN Respond(p, req, 400, "MissingCredentials", NoBody)
           ELSE IF find_by_username(users, data.username) # <<>>
             THEN Respond(p, req, 409, "DuplicateUsername", NoBody)
           ELSE IF Get(data, "email") # <<>> /\ find_by_email(users, data.email) # <<>>
             THEN Respond(p, req, 409, "DuplicateEmail", NoBody)
           ELSE Pend(p, [pc |-> "insert_user", req |-> req,
                         row |-> User(data.username, data.password, EmailOf(data), salt)])

\* api_routes.py register over AuthService.register_user, up to user.save()
ApiRegister(p, data, salt) ==
    LET req == [op |-> "register", ep |-> "api", data |-> data]
    IN  /\ inflight[p] = Idle
        /\ IF validate_user_data(data) # {}
             THEN Respond(p, req, 400, "ValidationError", NoBody)
           ELSE IF find_by_username(users, data.username) # <<>>
             THEN Respond(p, req, api_register_status("DuplicateUsername"),
                          "DuplicateUsername", NoBody)
           ELSE Pend(p, [pc |-> "insert_user", req |-> req,
                         row |-> User(data.username, data.password, EmailOf(data), salt)])

\* BaseModel.save() of the new user and the handler's answer
CommitUserInsert(p) ==
    LET t == inflight[p]
    IN  /\ t.pc = "insert_user"
        /\ inflight' = [inflight EXCEPT ![p] = Idle]
        /\ UNCHANGED <<products, now, profile>>
        /\ IF user_unique_violated(users, t.row, 0)
             THEN /\ UNCHANGED users
                  /\ last' = [last EXCEPT ![p] =
                        IF t.req.ep = "app"
                          THEN Response(t.req, 500, "InternalError", NoBody, {})
                          ELSE Response(t.req, api_register_status("RegistrationFailed"),
                                        "RegistrationFailed", NoBody, {})]
             ELSE /\ users' = insert_user(users, t.row)
                  /\ last' = [last EXCEPT ![p] =
                        Response(t.req, 201, "Created",
                                 IF t.req.ep = "app"
                                   THEN <<[user |-> user_to_dict(insert_user(users, t.row)
                                                                   [Len(users) + 1])]>>
                                   ELSE NoBody,
                                 {})]

\* app.py login
AppLogin(p, data) ==
    LET req == [op |-> "login", ep |-> "app", data |-> data]
        got == find_by_username(users, Get(data, "username"))
    IN  /\ inflight[p] = Idle
        /\ IF Get(data, "username") = <<>> \/ Get(data, "password") = <<>>
             THEN Respond(p, req, 400, "MissingCredentials", NoBody)
           ELSE IF got # <<>> /\ check_password_hash(got[1].password_hash, data.password)
             THEN IF ~got[1].is_active
                    THEN Respond(p, req, 403, "Deactivated", NoBody)
                  ELSE Respond(p, req, 200, "Ok",
                               <<[access_token |-> create_access_token(str(got[1].id), "app"),
                                  user |-> user_to_dict(got[1])]>>)
           ELSE Respond(p, req, 401, "BadCredentials", NoBody)

\* AuthService.authenticate_user: the outcome before a token is made
authenticate_user(got, password) ==
    IF got = <<>> THEN "UserNotFound"
    ELSE IF ~got[1].is_active THEN "Deactivated"
    ELSE IF ~check_password_hash(got[1].password_hash, password) THEN "WrongPassword"
    ELSE "ok"

\* api_routes.py login over AuthService.authenticate_user: every failure is a 401
ApiLogin(p, data) ==
    LET req == [op |-> "login", ep |-> "api", data |-> data]
        got == find_by_username(users, Get(data, "username"))
    IN  /\ inflight[p] = Idle
        /\ IF Get(data, "username") = <<>> \/ Get(data, "password") = <<>>
             THEN Respond(p, req, 400, "MissingCredentials", NoBody)
           ELSE LET outcome == authenticate_user(got, data.password)
                IN  IF outcome = "ok"
                      THEN Respond(p, req, 200, "Ok",
                                   <<[access_token |->
                                        create_access_token(str(got[1].id), "api")]>>)
                    ELSE Respond(p, req, 401, outcome, NoBody)

\* app.py update_user_profile, up to user.save(); identity is the token's subject
AppUpdateProfile(p, identity, data, salt) ==
    LET req == [op |-> "profile", ep |-> "app", identity |-> identity, data |-> data]
        got == find_by_id(users, int(identity))
        newEmail == Get(data, "email")
        setEmail == newEmail # <<>> /\ <<newEmail>> # got[1].email
        taken == find_by_email(users, newEmail)
        assigned ==
            (IF setEmail THEN [email |-> <<newEmail>>] ELSE <<>>)
              @@ (IF Get(data, "password") # <<>>
                    THEN [password_hash |-> generate_password_hash(data.password, salt)]
                    ELSE <<>>)
    IN  /\ inflight[p] = Idle
        /\ IF got = <<>>
             THEN Respond(p, req, 404, "NotFound", NoBody)
           ELSE IF DOMAIN data = {}
             THEN Respond(p, req, 400, "NoData", NoBody)
           ELSE IF setEmail /\ taken # <<>> /\ taken[1].id # got[1].id
             THEN Respond(p, req, 409, "DuplicateEmail", NoBody)
           ELSE Pend(p, [pc |-> "update_user", req |-> req, id |-> got[1].id,
                         changes |-> assigned])

\* BaseModel.save() of the loaded user and the handler's answer
CommitUserUpdate(p) ==
    LET t == inflight[p]
        row == [f \in DOMAIN users[t.id] |->
                  IF f \in DOMAIN t.changes THEN t.changes[f] ELSE users[t.id][f]]
    IN  /\ t.pc = "update_user"
        /\ inflight' = [inflight EXCEPT ![p] = Idle]
        /\ UNCHANGED <<products, now, profile>>
        /\ IF user_unique_violated(users, row, t.id)
             THEN /\ UNCHANGED users
                  /\ last' = [last EXCEPT ![p] =
                        Response(t.req, 500, "InternalError", NoBody, {})]
             ELSE /\ users' = [users EXCEPT ![t.id] = row]
                  /\ last' = [last EXCEPT ![p] =
                        Response(t.req, 200, "Ok", <<[user |-> user_to_dict(row)]>>,
                                 DOMAIN t.changes)]

\* app.py get_user_profile (GET /profile): the account the token's subject names
AppGetProfile(p, tok) ==
    LET req == [op |-> "whoami", ep |-> "app", token |-> tok]
    IN  /\ inflight[p] = Idle
        /\ \E auth \in decode_token(tok, "app") :
             IF auth # "ok"
               THEN Reject(p, req, auth)
             ELSE LET got == find_by_id(users, int(get_jwt_identity(tok)))
                  IN  IF got = <<>>
                        THEN Respond(p, req, 404, "NotFound", NoBody)
                      ELSE Respond(p, req, 200, "Ok", <<user_to_dict(got[1])>>)

\* api_routes.py get_products over ProductService.get_all_products, no search term
ApiGetProducts(p, tok) ==
    LET req == [op |-> "list", ep |-> "api", token |-> tok]
        active == SelectSeq(products, LAMBDA r : r.is_active)
    IN  /\ inflight[p] = Idle
        /\ \E auth \in decode_token(tok, "api") :
             IF auth # "ok"
               THEN Reject(p, req, auth)
             ELSE Respond(p, req, 200, "Ok",
                          <<[i \in 1 .. Len(active) |-> to_dict(active[i])]>>)

\* a second passes on the servers' clock
Tick ==
    /\ now < MaxTime
    /\ now' = now + 1
    /\ UNCHANGED <<products, inflight, last, users, profile>>

\* users.is_active has no handler that clears it: an operator does, on the database
Deactivate(id) ==
    /\ id \in 1 .. Len(users)
    /\ users[id].is_active
    /\ users' = [users EXCEPT ![id].is_active = FALSE]
    /\ UNCHANGED <<products, inflight, last, now, profile>>

-----------------------------------------------------------------------------
(* Request payloads offered by the clients *)

Quantities == -1 .. MaxQty
ProductIds == {1, 2}  \* at most two rows exist: id 2 is absent until the second insert

CreateData ==
    {[name |-> NameA, sku |-> SKU1, quantity |-> q, price |-> PriceA] : q \in Quantities}
      \cup {[name |-> NameA, sku |-> SKU2, quantity |-> MaxQty, price |-> PriceA],
            [name |-> NamePadded, sku |-> SKU2, quantity |-> 1, price |-> PriceA],
            [name |-> NameA, sku |-> SKU2, quantity |-> 0, price |-> 0],
            [name |-> NameA, sku |-> SKU2, quantity |-> 1, price |-> -1],
            [name |-> NameA, sku |-> SKU2, price |-> PriceA]}

QuantityData == {[quantity |-> q] : q \in Quantities} \cup {[amount |-> 1]}

UpdateData ==
    {[quantity |-> q] : q \in {-1, MaxQty}}
      \cup {[name |-> NameB], [name |-> NameB, quantity |-> -1],
            [name |-> NameB, price |-> 0, quantity |-> 1],
            [name |-> NameB, sku |-> SKU1, is_active |-> TRUE]}
      \cup {<<>>}

-----------------------------------------------------------------------------
(* Spec: one client issues requests one after the other, on an empty database *)

Init ==
    /\ products = <<>>
    /\ inflight = [p \in Clients |-> Idle]
    /\ last = [p \in Clients |-> NoResponse]
    /\ users = <<>>
    /\ now = 0
    /\ profile = "default"

\* the tokens of logged-in users, issued at time 0 by the application of ep
LoggedIn(ep) ==
    {encode_token(str(u), 0, app_config(ep), JWT_SECRET_KEY(ep)) : u \in UserIds}

Next ==
    \E p \in Clients :
        \/ \E d \in CreateData, t \in LoggedIn("app") : AppAddProduct(p, d, t)
        \/ \E d \in CreateData, t \in LoggedIn("api") : ApiAddProduct(p, d, t)
        \/ CommitInsert(p)
        \/ \E id \in ProductIds, d \in QuantityData, t \in LoggedIn("app") :
              AppUpdateQuantity(p, id, d, t)
        \/ \E id \in ProductIds, d \in QuantityData, t \in LoggedIn("api") :
              ApiUpdateQuantity(p, id, d, t)
        \/ \E id \in ProductIds, d \in UpdateData, t \in LoggedIn("app") :
              AppUpdateProduct(p, id, d, t)
        \/ \E id \in ProductIds, t \in LoggedIn("app") : AppDeleteProduct(p, id, t)
        \/ CommitUpdate(p)

Spec == Init /\ [][Next]_vars

-----------------------------------------------------------------------------
(* SpecRace: product 1 exists and is active; every caller issues one request, *)
(* and the read and commit steps of the callers interleave freely             *)

RaceCreateData == {[name |-> NameA, sku |-> SKU2, quantity |-> 1, price |-> PriceA]}

NotStarted(p) == inflight[p] = Idle /\ last[p] = NoResponse

InitRace ==
    /\ \E q \in 0 .. MaxQty :
          products = insert_row(<<>>, Product([name |-> NameA, sku |-> SKU1,
                                               quantity |-> q, price |-> PriceA], 1))
    /\ inflight = [p \in Callers |-> Idle]
    /\ last = [p \in Callers |-> NoResponse]
    /\ users = <<>>
    /\ now = 0
    /\ profile = "default"

NextRace ==
    \E p \in Callers :
        \/ NotStarted(p) /\ \E d \in RaceCreateData, t \in LoggedIn("app") :
                               AppAddProduct(p, d, t)
        \/ NotStarted(p) /\ \E d \in RaceCreateData, t \in LoggedIn("api") :
                               ApiAddProduct(p, d, t)
        \/ CommitInsert(p)
        \/ NotStarted(p) /\ \E d \in QuantityData, t \in LoggedIn("app") :
                               AppUpdateQuantity(p, 1, d, t)
        \/ NotStarted(p) /\ \E d \in QuantityData, t \in LoggedIn("api") :
                               ApiUpdateQuantity(p, 1, d, t)
        \/ NotStarted(p) /\ \E d \in UpdateData, t \in LoggedIn("app") :
                               AppUpdateProduct(p, 1, d, t)
        \/ CommitUpdate(p)

SpecRace == InitRace /\ [][NextRace]_vars

-----------------------------------------------------------------------------
(* SpecAuth: one client registers, logs in and edits profiles, on an empty database *)

RegisterData ==
    {[username |-> UserA, password |-> PwA],
     [username |-> UserA, password |-> PwA, email |-> EmailA],
     [username |-> UserB, password |-> PwB, email |-> EmailA],
     [username |-> UserB, password |-> PwB, email |-> EmailB],
     [username |-> UserB, password |-> PwShort, email |-> EmailBad],
     [username |-> UserB]}

LoginData ==
    {[username |-> u, password |-> w] : u \in {UserA, UserB}, w \in {PwA, PwB}}
      \cup {[username |-> UserA]}

ProfileData ==
    {[email |-> EmailA], [email |-> EmailB], [password |-> PwB],
     [email |-> EmailB, password |-> PwA], <<>>}

Identities == {str(1), str(2)}

InitAuth ==
    /\ products = <<>>
    /\ inflight = [p \in Clients |-> Idle]
    /\ last = [p \in Clients |-> NoResponse]
    /\ users = <<>>
    /\ now = 0
    /\ profile = "default"

NextAuth ==
    \/ \E p \in Clients :
        \/ \E d \in RegisterData, s \in Salts : AppRegister(p, d, s)
        \/ \E d \in RegisterData, s \in Salts : ApiRegister(p, d, s)
        \/ CommitUserInsert(p)
        \/ \E d \in LoginData : AppLogin(p, d)
        \/ \E d \in LoginData : ApiLogin(p, d)
        \/ \E i \in Identities, d \in ProfileData, s \in Salts : AppUpdateProfile(p, i, d, s)
        \/ CommitUserUpdate(p)
    \/ \E id \in 1 .. Len(users) : Deactivate(id)

SpecAuth == InitAuth /\ [][NextAuth]_vars

-----------------------------------------------------------------------------
(* SpecToken: two accounts exist; a client logs in during the first seconds and  *)
(* presents the token it holds, no token, or a token signed with another key,  *)
(* while the clock runs; the blueprint's application runs under any profile     *)

Profiles == {"development", "testing", "production"}

TokenLoginData ==
    {[username |-> UserA, password |-> PwA], [username |-> UserB, password |-> PwB],
     [username |-> UserA, password |-> PwB]}

ForgedToken == [sub |-> str(1), iat |-> 0, exp |-> <<>>, key |-> "forged"]

\* the token client p holds from the application of ep: the one its login returned,
\* or the one it presented last
Held(p, ep) ==
    LET r == last[p]
    IN  IF r.req.op = "login" /\ r.req.ep = ep /\ r.status = 200
          THEN {r.body[1].access_token}
        ELSE IF r.req.op \in {"whoami", "list"} /\ r.req.ep = ep
          THEN {r.req.token}
        ELSE {}

Presented(p, ep) == Held(p, ep) \cup {NoToken, ForgedToken}

InitToken ==
    /\ products = <<>>
    /\ inflight = [p \in Clients |-> Idle]
    /\ last = [p \in Clients |-> NoResponse]
    /\ users = insert_user(insert_user(<<>>, User(UserA, PwA, <<>>, "s1")),
                           User(UserB, PwB, <<EmailB>>, "s2"))
    /\ now = 0
    /\ profile \in Profiles

NextToken ==
    \/ \E p \in Clients :
        \/ now <= MaxIssueTime /\ \E d \in TokenLoginData : AppLogin(p, d)
        \/ now <= MaxIssueTime /\ \E d \in TokenLoginData : ApiLogin(p, d)
        \/ \E t \in Presented(p, "app") : AppGetProfile(p, t)
        \/ \E t \in Presented(p, "api") : ApiGetProducts(p, t)
    \/ Tick

SpecToken == InitToken /\ [][NextToken]_vars

-----------------------------------------------------------------------------
(* SpecGuard: one client issues product requests one after the other, each with *)
(* no token, a token signed with another key, or a token issued at time 0 to    *)
(* user 1 or 2; the run takes place at time 0, after app.py's expiry, or after  *)
(* every expiry                                                                 *)

GuardTimes ==
    {0, 15 * 60 + JWT_DECODE_LEEWAY + 1, 3600 + JWT_DECODE_LEEWAY + 1}

GuardProfiles == {"development", "production"}

GuardTokens(ep) ==
    {NoToken, ForgedToken}
      \cup {encode_token(str(u), 0, app_config(ep), JWT_SECRET_KEY(ep)) : u \in {1, 2}}

GuardCreateData == {[name |-> NameA, sku |-> SKU1, quantity |-> 1, price |-> PriceA]}
GuardQuantityData == {[quantity |-> MaxQty]}
GuardUpdateData == {[name |-> NameB]}

InitGuard ==
    /\ products = <<>>
    /\ inflight = [p \in Clients |-> Idle]
    /\ last = [p \in Clients |-> NoResponse]
    /\ users = <<>>
    /\ now \in GuardTimes
    /\ profile \in GuardProfiles

NextGuard ==
    \E p \in Clients :
        \/ \E d \in GuardCreateData, t \in GuardTokens("app") : AppAddProduct(p, d, t)
        \/ \E d \in GuardCreateData, t \in GuardTokens("api") : ApiAddProduct(p, d, t)
        \/ CommitInsert(p)
        \/ \E id \in ProductIds, d \in GuardQuantityData, t \in GuardTokens("app") :
              AppUpdateQuantity(p, id, d, t)
        \/ \E id \in ProductIds, d \in GuardQuantityData, t \in GuardTokens("api") :
              ApiUpdateQuantity(p, id, d, t)
        \/ \E id \in ProductIds, d \in GuardUpdateData, t \in GuardTokens("app") :
              AppUpdateProduct(p, id, d, t)
        \/ \E id \in ProductIds, t \in GuardTokens("app") : AppDeleteProduct(p, id, t)
        \/ CommitUpdate(p)

SpecGuard == InitGuard /\ [][NextGuard]_vars

-----------------------------------------------------------------------------
(* Properties *)

Rows == 1 .. Len(products)
HasQuantity(r) == r.req.op \in {"quantity", "update"} /\ "quantity" \in DOMAIN r.req.data
IsCreate(r) == r.req.op = "create"

\* the sku of create request r was held by a row before r was served
SkuUsedBefore(r) ==
    \E i \in Rows :
        /\ products[i].sku = r.req.data.sku
        /\ ~(r.status = 201 /\ r.body[1].product_id = i)

\* C1: in every reachable state the stored quantity of every product is >= 0.
C1_QuantityNeverNegative == \A i \in Rows : products[i].quantity >= 0

\* C2: when N concurrent updateQuantity calls on the same active product have all
\* returned, exactly the calls with q >= 0 have succeeded, and the stored quantity
\* is the q of one of them (whenever there is one) and is not negative.
AllDone == \A p \in DOMAIN last : inflight[p] = Idle /\ last[p] # NoResponse
QuantityCalls == {p \in DOMAIN last : HasQuantity(last[p])}
Submitted == {last[p].req.data.quantity : p \in QuantityCalls}

C2_ConcurrentQuantityLinearizable ==
    AllDone =>
        /\ products[1].quantity >= 0
        /\ \A p \in QuantityCalls :
              (last[p].status = 200) <=> (last[p].req.data.quantity >= 0)
        /\ {q \in Submitted : q >= 0} # {} =>
              products[1].quantity \in {q \in Submitted : q >= 0}

\* a call that read the quantity it was about to set, and committed after another
\* call had changed it: its commit wrote nothing and its answer shows the other value
C2_Witness ==
    /\ AllDone
    /\ \E p \in QuantityCalls :
          /\ last[p].status = 200
          /\ last[p].wrote = {}
          /\ last[p].body[1].quantity # last[p].req.data.quantity
          /\ products[1].quantity \in Submitted

\* C3: a create whose sku is already held by a product, active or inactive, is
\* answered DuplicateSku (409).
C3_DuplicateSkuAlwaysConflict ==
    \A p \in DOMAIN last :
        (IsCreate(last[p]) /\ validate_product_data(last[p].req.data) = {}
            /\ SkuUsedBefore(last[p]))
          => (last[p].status = 409 /\ last[p].kind = "DuplicateSku")

\* C4: no two stored products, active or inactive, have the same sku.
C4_SkuUnique ==
    \A i \in Rows, j \in Rows : i # j => products[i].sku # products[j].sku

\* a create re-using the sku of a soft-deleted product has just been refused
C4_Witness ==
    \E p \in DOMAIN last, i \in Rows :
        /\ IsCreate(last[p])
        /\ last[p].kind \in {"InternalError", "CreationFailed"}
        /\ products[i].sku = last[p].req.data.sku
        /\ ~products[i].is_active

\* C5: of the create calls racing on one unused sku exactly one succeeds and every
\* other one is answered DuplicateSku.
C5_RacingCreatesOneWinner ==
    LET creators == {p \in DOMAIN last : IsCreate(last[p])}
    IN  (AllDone /\ Cardinality(creators) >= 2) =>
            \E w \in creators :
                /\ last[w].status = 201
                /\ \A o \in creators \ {w} : last[o].kind = "DuplicateSku"

\* C6: every answer to an updateQuantity with q < 0 on an existing product is the
\* validation error (400), is NegativeQuantity when the product is active, and the
\* step that produces it leaves the table unchanged.
C6_NegativeQuantityRejected ==
    [][\A p \in DOMAIN last :
          (last'[p] # last[p] /\ HasQuantity(last'[p])
              /\ last'[p].req.data.quantity < 0 /\ last'[p].req.id \in Rows)
            => /\ last'[p].status = 400
               /\ products[last'[p].req.id].is_active => last'[p].kind = "NegativeQuantity"
               /\ products' = products]_vars

C6_Witness ==
    \E p \in DOMAIN last :
        /\ HasQuantity(last[p])
        /\ last[p].req.data.quantity < 0
        /\ last[p].req.id \in Rows
        /\ last[p].kind = "NegativeQuantity"
        /\ products[last[p].req.id].quantity > 0

\* C7: every softDelete of an existing product, the first and any later one, is
\* answered 200 and leaves the table as it was except for active = false there.
C7_SoftDeleteIdempotent ==
    [][\A p \in DOMAIN last :
          (last'[p] # last[p] /\ last'[p].req.op = "delete" /\ last'[p].req.id \in Rows)
            => /\ last'[p].status = 200
               /\ last'[p].kind = "Ok"
               /\ products' = [products EXCEPT ![last'[p].req.id].is_active = FALSE]]_vars

\* a softDelete of a product that was inactive already has been answered
C7_Witness ==
    \E p \in DOMAIN last :
        /\ last[p].req.op = "delete"
        /\ last[p].status = 200
        /\ last[p].wrote = {}
        /\ ~products[last[p].req.id].is_active

\* C8 (amended): a create whose input passes validate_product_data (name of at least
\* 2 and sku of at least 3 characters after stripping, quantity >= 0, price >= 0) and
\* whose sku no product holds succeeds; after a successful create lookup-by-sku
\* returns the submitted name, sku, quantity and price, active, with
\* in_stock = (quantity > 0); every answer to a quantity update carries the stored
\* quantity and in_stock = (stored quantity > 0).
SameAsSubmitted(d, got) ==
    /\ got # <<>>
    /\ to_dict(got[1]).name = d.name
    /\ to_dict(got[1]).sku = d.sku
    /\ to_dict(got[1]).quantity = d.quantity
    /\ to_dict(got[1]).price = d.price
    /\ to_dict(got[1]).is_active
    /\ to_dict(got[1]).in_stock = (d.quantity > 0)

C8_CreateLookupRoundTrip ==
    \A p \in DOMAIN last :
        LET r == last[p]
        IN  /\ (IsCreate(r) /\ validate_product_data(r.req.data) = {} /\ ~SkuUsedBefore(r))
                  => r.status = 201
            /\ (IsCreate(r) /\ r.status = 201)
                  => /\ SameAsSubmitted(r.req.data, find_by_sku(products, r.req.data.sku))
                     /\ find_by_sku(products, r.req.data.sku)[1].id = r.body[1].product_id
            /\ (HasQuantity(r) /\ r.status = 200)
                  => /\ r.body[1].quantity = products[r.req.id].quantity
                     /\ r.body[1].in_stock = (products[r.req.id].quantity > 0)

C8_Witness ==
    \E p \in DOMAIN last :
        /\ IsCreate(last[p])
        /\ last[p].req.ep = "api"
        /\ last[p].status = 201
        /\ last[p].req.data.quantity = 0
        /\ ~to_dict(find_by_sku(products, last[p].req.data.sku)[1]).in_stock

\* C8 as claimed: validity is name of at least 2 chars, sku of at least 3 chars,
\* quantity >= 0, price >= 0
ClaimValid(d) ==
    /\ RequiredFields \subseteq DOMAIN d
    /\ Len(d.name) >= 2
    /\ Len(d.sku) >= 3
    /\ d.quantity >= 0
    /\ d.price >= 0

C8_AsClaimed ==
    \A p \in DOMAIN last :
        (IsCreate(last[p]) /\ ClaimValid(last[p].req.data) /\ ~SkuUsedBefore(last[p]))
          => SameAsSubmitted(last[p].req.data,
                             find_by_sku(products, last[p].req.data.sku))

\* C9: a login that follows a successful register of the same username succeeds
\* when it offers the registered password and the account is still active, and its
\* token's subject (and the user it returns) is the id of the account register
\* created; when it offers another password it is answered 401 and carries no token.
C9_RegisterLoginRoundTrip ==
    [][\A p \in DOMAIN last :
          (/\ last[p].req.op = "register" /\ last[p].status = 201
           /\ last'[p].req.op = "login"
           /\ Get(last'[p].req.data, "password") # <<>>
           /\ last'[p].req.data.username = last[p].req.data.username)
            => LET row == find_by_username(users, last[p].req.data.username)[1]
                   same == last'[p].req.data.password = last[p].req.data.password
               IN  /\ row.id = Len(users)
                   /\ last[p].req.ep = "app" => last[p].body[1].user.id = row.id
                   /\ (same /\ row.is_active) =>
                         /\ last'[p].status = 200
                         /\ int(last'[p].body[1].access_token.sub) = row.id
                         /\ last'[p].req.ep = "app" => last'[p].body[1].user.id = row.id
                   /\ ~same => (last'[p].status = 401 /\ last'[p].body = NoBody)]_vars

\* the second account has logged in and holds a token for id 2
C9_Witness ==
    \E p \in DOMAIN last :
        /\ last[p].req.op = "login"
        /\ last[p].status = 200
        /\ Len(users) = 2
        /\ last[p].req.data.username = users[2].username
        /\ int(last[p].body[1].access_token.sub) = 2

\* the username / email of register request r was held by an account before r
UsernameUsedBefore(r) ==
    \E i \in 1 .. Len(users) :
        /\ users[i].username = r.req.data.username
        /\ ~(r.status = 201 /\ i = Len(users))

EmailUsedBefore(r) ==
    /\ "email" \in DOMAIN r.req.data
    /\ \E i \in 1 .. Len(users) :
          /\ users[i].email = <<r.req.data.email>>
          /\ ~(r.status = 201 /\ i = Len(users))

\* C10: a register whose username is taken is answered DuplicateUsername (409), and
\* one whose email is taken is answered DuplicateEmail (409).
C10_DuplicateRegisterConflict ==
    \A p \in DOMAIN last :
        (last[p].req.op = "register" /\ validate_user_data(last[p].req.data) = {})
          => /\ UsernameUsedBefore(last[p])
                  => (last[p].status = 409 /\ last[p].kind = "DuplicateUsername")
             /\ (~UsernameUsedBefore(last[p]) /\ EmailUsedBefore(last[p]))
                  => (last[p].status = 409 /\ last[p].kind = "DuplicateEmail")

\* a step in which client p is answered by a token-protected read (GET /profile,
\* GET /products) to which it presented a token signed by that application
Verified(p) ==
    /\ last'[p] # last[p]
    /\ last'[p].req.op \in {"whoami", "list"}
    /\ last'[p].req.token # NoToken
    /\ last'[p].req.token.key = JWT_SECRET_KEY(last'[p].req.ep)

Expires(ep) == app_config(ep).JWT_ACCESS_TOKEN_EXPIRES
Elapsed(tok) == now - tok.iat

\* C11 (amended): a login's token carries the id of the account that logged in.
\* Where an expiry is configured (production: 3600 s, app.py: 900 s) the token
\* verifies, to that id, while less than expiry + leeway has elapsed since
\* issuance and is answered ExpiredToken (401) once more than expiry + leeway has
\* elapsed; under development and testing no expiry is configured and the token
\* verifies at every time.
C11_TokenExpiry ==
    [][\A p \in DOMAIN last :
          /\ (last'[p] # last[p] /\ last'[p].req.op = "login" /\ last'[p].status = 200)
                => LET tok == last'[p].body[1].access_token
                       row == find_by_username(users, last'[p].req.data.username)[1]
                   IN  /\ int(get_jwt_identity(tok)) = row.id
                       /\ tok.iat = now
                       /\ tok.exp = IF Expires(last'[p].req.ep) = <<>> THEN <<>>
                                     ELSE <<now + Expires(last'[p].req.ep)[1]>>
          /\ Verified(p)
                => LET r == last'[p]
                       tok == r.req.token
                       E == Expires(r.req.ep)
                       live == /\ r.status = 200
                               /\ r.req.op = "whoami"
                                     => r.body[1].id = int(get_jwt_identity(tok))
                   IN  /\ E = <<>> => live
                       /\ (E # <<>> /\ Elapsed(tok) < E[1] + JWT_DECODE_LEEWAY) => live
                       /\ (E # <<>> /\ Elapsed(tok) > E[1] + JWT_DECODE_LEEWAY)
                             => (r.status = 401 /\ r.kind = "ExpiredToken")]_vars

\* under production a token of the second account, accepted after its expiry but
\* within the leeway, has since been answered ExpiredToken
C11_Witness ==
    \E p \in DOMAIN last :
        /\ profile = "production"
        /\ last[p].req.op = "list"
        /\ last[p].kind = "ExpiredToken"
        /\ get_jwt_identity(last[p].req.token) = str(2)
        /\ last[p].req.token.iat = MaxIssueTime
        /\ now > last[p].req.token.exp[1] + JWT_DECODE_LEEWAY

\* C11 as claimed: under every profile the token is answered ExpiredToken once the
\* expiry (at most the longest one configured, 3600 s) and the leeway have elapsed.
C11_AsClaimed ==
    [][\A p \in DOMAIN last :
          (Verified(p) /\ Elapsed(last'[p].req.token) > 3600 + JWT_DECODE_LEEWAY)
            => (last'[p].status = 401 /\ last'[p].kind = "ExpiredToken")]_vars

\* C12: a login to a deactivated account never carries a token; with the correct
\* password it is answered Deactivated (403 Forbidden), and a login to an active
\* account with a wrong password is answered as a wrong password (401), by both
\* login implementations.
C12_DeactivatedDistinct ==
    [][\A p \in DOMAIN last :
          (/\ last'[p] # last[p]
           /\ last'[p].req.op = "login"
           /\ Get(last'[p].req.data, "password") # <<>>
           /\ find_by_username(users, last'[p].req.data.username) # <<>>)
            => LET r == last'[p]
                   row == find_by_username(users, r.req.data.username)[1]
                   correct == check_password_hash(row.password_hash, r.req.data.password)
               IN  /\ ~row.is_active => r.body = NoBody
                   /\ (~row.is_active /\ correct)
                         => (r.status = 403 /\ r.kind = "Deactivated")
                   /\ (row.is_active /\ ~correct)
                         => (r.status = 401 /\ r.kind \in {"WrongPassword", "BadCredentials"})]_vars

\* C13: every answer to an updateQuantity on an existing, soft-deleted product is
\* Inactive, and the step that produces it leaves the stored quantity unchanged.
C13_InactiveQuantityRejected ==
    [][\A p \in DOMAIN last :
          (/\ last'[p] # last[p]
           /\ HasQuantity(last'[p])
           /\ last'[p].req.id \in Rows
           /\ ~products[last'[p].req.id].is_active)
            => /\ last'[p].kind = "Inactive"
               /\ products'[last'[p].req.id].quantity
                     = products[last'[p].req.id].quantity]_vars

\* C14: a product is inserted active; a step never removes a row, never renumbers
\* one, and never makes an inactive product active again.
C14_InactiveIsTerminal ==
    [][/\ Len(products') >= Len(products)
       /\ \A i \in Rows :
             /\ products'[i].id = i
             /\ ~products[i].is_active => ~products'[i].is_active
       /\ \A i \in (1 .. Len(products')) \ Rows : products'[i].is_active]_vars

\* an update carrying is_active = true was accepted on a soft-deleted product,
\* changed its name, and the product is still inactive
C14_Witness ==
    \E p \in DOMAIN last :
        /\ last[p].req.op = "update"
        /\ "is_active" \in DOMAIN last[p].req.data
        /\ last[p].status = 200
        /\ last[p].wrote = {"name"}
        /\ ~products[last[p].req.id].is_active

UsersUnique ==
    \A i \in 1 .. Len(users), j \in 1 .. Len(users) :
        i # j => /\ users[i].username # users[j].username
                 /\ users[i].email # <<>> => users[i].email # users[j].email

\* C15: in every reachable state no two accounts share a username or a non-null
\* email; an updateProfile setting an email held by another account is answered
\* DuplicateEmail (409) and changes no account, and one setting the account's own
\* current email is accepted.
C15_AccountsUnique ==
    /\ []UsersUnique
    /\ [][\A p \in DOMAIN last :
             (/\ last'[p] # last[p]
              /\ last'[p].req.op = "profile"
              /\ "email" \in DOMAIN last'[p].req.data
              /\ int(last'[p].req.identity) \in 1 .. Len(users))
               => LET r == last'[p]
                      id == int(r.req.identity)
                      other == \E i \in 1 .. Len(users) :
                                  i # id /\ users[i].email = <<r.req.data.email>>
                  IN  /\ other => /\ r.status = 409
                                  /\ r.kind = "DuplicateEmail"
                                  /\ users' = users
                      /\ users[id].email = <<r.req.data.email>>
                            => /\ r.status = 200
                               /\ users'[id].email = users[id].email]_vars

\* the second account asked for the first account's email and was refused
C15_Witness ==
    \E p \in DOMAIN last :
        /\ last[p].req.op = "profile"
        /\ last[p].kind = "DuplicateEmail"
        /\ int(last[p].req.identity) = 2
        /\ users[1].email = <<last[p].req.data.email>>
        /\ users[2].email # users[1].email

\* C16: a create whose input fails validation (a required field missing, name or
\* sku too short, quantity or price negative) is answered as a validation error
\* (400) through both create entry points, and inserts nothing.
C16_InvalidCreateRejected ==
    \A p \in DOMAIN last :
        (IsCreate(last[p]) /\ validate_product_data(last[p].req.data) # {})
          => /\ last[p].status = 400
             /\ last[p].kind \in {"ValidationError", "MissingFields"}

\* a step in which client p is answered by PUT /products/<id> on an existing product
Updated(p) ==
    /\ last'[p] # last[p]
    /\ last'[p].req.op = "update"
    /\ last'[p].req.id \in Rows

\* C17 (amended): a PUT /products/<id> carrying a negative quantity fails (400); a
\* failed update leaves the table as it was, whatever other fields it carried, and
\* a successful one stores every updatable field it carried: no state holds a
\* partially applied update.
C17_UpdateAllOrNothing ==
    [][\A p \in DOMAIN last :
          Updated(p)
            => LET r == last'[p]
                   d == r.req.data
               IN  /\ ("quantity" \in DOMAIN d /\ d.quantity < 0) => r.status = 400
                   /\ r.status # 200 => products' = products
                   /\ r.status = 200
                         => \A f \in DOMAIN d \cap UpdatableFields :
                               products'[r.req.id][f] = d[f]]_vars

\* an update carrying a new name and a negative quantity has failed: the name was
\* assigned in the session, and the stored name is the old one
C17_Witness ==
    \E p \in DOMAIN last :
        /\ last[p].req.op = "update"
        /\ last[p].status = 400
        /\ last[p].dirty = {"name"}
        /\ last[p].req.id \in Rows
        /\ products[last[p].req.id].name # last[p].req.data.name

\* C17 as claimed: moreover the failure is detected before any field of the record
\* has been assigned.
C17_AsClaimed ==
    [][\A p \in DOMAIN last :
          (Updated(p) /\ last'[p].status # 200)
            => (products' = products /\ last'[p].dirty = {})]_vars

\* C18: a PUT /products/<id> that carries no quantity changes nothing but the name
\* and price it carries, on that product only; no step changes the sku or the id
\* of a stored product.
C18_UpdateFieldsFrame ==
    [][/\ \A i \in Rows : /\ products'[i].sku = products[i].sku
                           /\ products'[i].id = products[i].id
       /\ \A p \in DOMAIN last :
             (Updated(p) /\ "quantity" \notin DOMAIN last'[p].req.data)
               => LET r == last'[p]
                      given == DOMAIN r.req.data \cap {"name", "price"}
                  IN  /\ Len(products') = Len(products)
                      /\ \A i \in Rows :
                            \A f \in DOMAIN products[i] :
                                (i # r.req.id \/ f \notin given)
                                  => products'[i][f] = products[i][f]
                      /\ r.status = 200
                            => \A f \in given : products'[r.req.id][f] = r.req.data[f]]_vars

\* an update carrying a name and another sku renamed the second of two products and
\* left its sku and quantity as they were
C18_Witness ==
    \E p \in DOMAIN last :
        /\ last[p].req.op = "update"
        /\ "sku" \in DOMAIN last[p].req.data
        /\ last[p].status = 200
        /\ last[p].wrote = {"name"}
        /\ Len(products) = 2
        /\ last[p].req.id = 2
        /\ products[2].sku # last[p].req.data.sku
        /\ products[2].name = last[p].req.data.name
        /\ products[2].quantity > 0

Mutating == {"create", "update", "quantity", "delete"}

\* the token of request req is missing, not signed by the application addressed,
\* or past its expiry and the leeway
BadToken(req) ==
    \/ req.token = NoToken
    \/ req.token.key # JWT_SECRET_KEY(req.ep)
    \/ req.token.exp # <<>> /\ req.token.exp[1] + JWT_DECODE_LEEWAY < now

\* C19: a product request whose token is missing, invalid or expired never reaches
\* a commit: it is answered with the token error (401 by app.py) and the table is
\* not changed; a product that a create inserts is owned by the subject of the
\* token the create carried.
C19_NoChangeWithoutToken ==
    [][\A p \in DOMAIN last :
          /\ (inflight'[p] # Idle /\ inflight[p] = Idle) => ~BadToken(inflight'[p].req)
          /\ (last'[p] # last[p] /\ last'[p].req.op \in Mutating)
                => LET r == last'[p]
                   IN  /\ BadToken(r.req)
                             => /\ r.kind \in {"MissingToken", "InvalidToken", "ExpiredToken"}
                                /\ r.status \in {401, 422}
                                /\ r.req.ep = "app" => r.status = 401
                                /\ products' = products
                                /\ inflight'[p] = Idle
                       /\ (r.req.op = "create" /\ r.status = 201)
                             => /\ ~BadToken(r.req)
                                /\ products'[r.body[1].product_id].created_by
                                      = int(get_jwt_identity(r.req.token))]_vars

\* after app.py's expiry: user 2 created the product through the blueprint, whose
\* tokens are still good, and a delete carrying app.py's expired token was refused
C19_Witness ==
    \E p \in DOMAIN last :
        /\ last[p].req.op = "delete"
        /\ last[p].kind = "ExpiredToken"
        /\ last[p].status = 401
        /\ Len(products) = 1
        /\ products[1].created_by = 2
        /\ products[1].is_active

====
